---- MODULE Spec2Model ----
(***************************************************************************)
(* backr: the tree walk, the worker pool and the entry point of            *)
(* src/src/main.rs: fn walk(), fn backup(), fn main().                     *)
(*                                                                         *)
(* backup(queue, threads, progress, quite) wraps the job vector, an error  *)
(* vector and a counter in three mutexes, spawns `threads` workers that    *)
(* drain the shared iterator, optionally polls the counter for a progress  *)
(* bar, joins the workers and returns the error vector.                    *)
(*                                                                         *)
(* A job is the pair <<src, dest>> of the source; a source path is a file  *)
(* number, a destination path is the sequence of its components, the last  *)
(* being the file name.  An error string is modelled by the <<src, dest>>  *)
(* pair it is formatted from (dest is empty in a read error of walk()).    *)
(* In backup() the outcome of each filesystem call is chosen by the        *)
(* environment when the call is made; walk() reads a source tree that is   *)
(* part of the state.                                                      *)
(***************************************************************************)
EXTENDS Integers, Sequences, FiniteSets, TLC

\* Bounds of the model.
MaxJobs == 3
MaxThreads == 2
NumDirs == 1
MaxNodes == 4

Dirs == 1..NumDirs
Files == 1..MaxJobs
Workers == 1..MaxThreads

\* The job vectors backup() is called with: Vec<(PathBuf, PathBuf)> of
\* distinct source files, each with a destination below some directory.
JobLists ==
    UNION { { [i \in 1..n |-> <<i, <<f[i], i>>>>] : f \in [1..n -> Dirs] } : n \in 0..MaxJobs }

\* The thread counts the command line can hand over (an i32, unchecked).
ThreadCounts == (0 - 1)..MaxThreads

VARIABLES
    jobs,           \* the queue argument of backup(), as received
    threads,        \* the threads argument
    progress,       \* the progress argument
    queue,          \* queue_mutex: what the shared iterator has yet to yield
    errors,         \* errors_mutex: the shared error vector
    completed,      \* completed_mutex: the shared counter
    held,           \* which worker holds each mutex (0: nobody)
    pc,             \* control location of each worker
    next,           \* the job a worker is processing
    local_errors,   \* each worker's local error vector
    dirs,           \* destination directories that exist
    mainpc,         \* control location of backup() itself
    handles,        \* number of workers spawned so far
    joined,         \* number of handles joined so far
    percent,        \* the last percent the renderer computed
    result,         \* the vector backup() returned
    taken,          \* per worker, the jobs it received from the queue
    outcome,        \* per source file, what happened to its job
    tree,           \* the source tree walk() reads, node 0 being its root
    update,         \* the update argument of walk()
    order,          \* the order in which read_dir yields the entries
    app,            \* control location of main()
    walk1,          \* what walk() returned
    walk2,          \* what a second walk() returned
    main_errors,    \* the errors vector of main()
    queue_len,      \* queue_len of main()
    logged          \* the error list write_log() was called with

vars == <<jobs, threads, progress, queue, errors, completed, held, pc, next,
          local_errors, dirs, mainpc, handles, joined, percent, result,
          taken, outcome, tree, update, order, app, walk1, walk2,
          main_errors, queue_len, logged>>

inputs == <<jobs, threads, progress>>
mainvars == <<mainpc, handles, joined, percent, result>>
walkvars == <<tree, update, order, app, walk1, walk2, main_errors, queue_len,
              logged>>

total == Len(jobs)

NoJob == <<0, <<0, 0>>>>

\* What walk() returns: the queue, the errors, and whether it panicked.
NoWalk == [queue |-> <<>>, errors |-> <<>>, panicked |-> FALSE]

\* The source tree: nodes 1 and 2 are entries of the root, the others are
\* entries of node 2.
Nodes == 1..MaxNodes
ParentOf(n) == IF n <= 2 THEN 0 ELSE 2

\* An entry of the source tree, as walk() sees it:
\*   exists    the entry is there
\*   bad       read_dir yields Err for it
\*   match     regex.is_match(src.to_str())
\*   kind      "file": is_file(); "dir": is_dir(); "other": neither
\*   readable  fs::read_dir succeeds on it
\*   dest      the destination file: "missing", or its modification time
\*             compared with the source's: "older", "equal", "newer"
\*   meta      metadata().modified() succeeds on source and destination
\*   name      src.file_name(): the last component of its path
Entry(k, m, r, d, t) ==
    [exists |-> TRUE, bad |-> FALSE, match |-> m, kind |-> k, readable |-> r,
     dest |-> d, meta |-> t, name |-> 0]
Absent == [Entry("file", FALSE, TRUE, "missing", TRUE) EXCEPT !.exists = FALSE]
BadEntry == [Entry("file", TRUE, TRUE, "missing", TRUE) EXCEPT !.bad = TRUE]

\* dest.parent().unwrap(): the path without its last component
parent(job) == SubSeq(job[2], 1, Len(job[2]) - 1)

\* ((completed as f32 / total as f32) * 100.0) as i32.  For the totals of
\* the model the f32 arithmetic is exact up to truncation.  With total = 0
\* the quotient is NaN; the cast yields 0 (saturating cast) or, in builds
\* where the cast of NaN is undefined, the x86 "integer indefinite" value.
percent_of(c, t) ==
    IF t = 0 THEN {0, 0 - 2147483647 - 1} ELSE {(c * 100) \div t}

Init ==
    /\ jobs \in JobLists
    /\ threads \in ThreadCounts
    /\ progress \in BOOLEAN
    /\ queue = jobs
    /\ errors = <<>>
    /\ completed = 0
    /\ held = [m \in {"queue", "errors", "completed"} |-> 0]
    /\ pc = [w \in Workers |-> "unspawned"]
    /\ next = [w \in Workers |-> NoJob]
    /\ local_errors = [w \in Workers |-> <<>>]
    /\ dirs \in SUBSET {<<d>> : d \in Dirs}
    /\ mainpc = "spawn"
    /\ handles = 0
    /\ joined = 0
    /\ percent = 0
    /\ result = <<>>
    /\ taken = [w \in Workers |-> <<>>]
    /\ outcome = [f \in Files |-> "pending"]
    /\ tree = [n \in {0} \cup Nodes |-> Absent]
    /\ update = FALSE
    /\ order = <<>>
    /\ app = "idle"
    /\ walk1 = NoWalk
    /\ walk2 = NoWalk
    /\ main_errors = <<>>
    /\ queue_len = 0
    /\ logged = <<>>

\* A panic of the main thread ends the process and every worker with it.
Running == mainpc # "aborted"

(***************************************************************************)
(* backup(): the main thread                                               *)
(***************************************************************************)

\* Spawn that does not wait for backup() to be called: the workers are
\* started while main() is still walking.
SpawnEarly ==
    /\ mainpc \in {"spawn", "uncalled"}
    /\ handles < threads
    /\ handles' = handles + 1
    /\ pc' = [pc EXCEPT ![handles + 1] = "lock_queue"]
    /\ UNCHANGED <<walkvars, inputs, queue, errors, completed, held, next, local_errors,
                   dirs, mainpc, joined, percent, result, taken, outcome>>

\* for _ in 0..threads { ... thread::spawn ...; handles.push(handle) }
Spawn ==
    /\ mainpc = "spawn"
    /\ handles < threads
    /\ handles' = handles + 1
    /\ pc' = [pc EXCEPT ![handles + 1] = "lock_queue"]
    /\ UNCHANGED <<walkvars, inputs, queue, errors, completed, held, next, local_errors,
                   dirs, mainpc, joined, percent, result, taken, outcome>>

\* the spawn loop ends; if progress { ... }
SpawnDone ==
    /\ mainpc = "spawn"
    /\ handles >= threads
    /\ mainpc' = IF progress THEN "bar" ELSE "join"
    /\ UNCHANGED <<walkvars, inputs, queue, errors, completed, held, pc, next,
                   local_errors, dirs, handles, joined, percent, result,
                   taken, outcome>>

\* 'bar: loop { completed = *lock; percent = ...; if percent >= 100 { break } }
Bar ==
    /\ mainpc = "bar"
    /\ held["completed"] = 0
    /\ \E p \in percent_of(completed, total) :
          /\ percent' = p
          /\ mainpc' = IF p >= 100 THEN "join" ELSE "sleep"
    /\ UNCHANGED <<walkvars, inputs, queue, errors, completed, held, pc, next,
                   local_errors, dirs, handles, joined, result, taken, outcome>>

\* thread::sleep(time::Duration::from_secs(5))
Sleep ==
    /\ mainpc = "sleep"
    /\ mainpc' = "bar"
    /\ UNCHANGED <<walkvars, inputs, queue, errors, completed, held, pc, next,
                   local_errors, dirs, handles, joined, percent, result,
                   taken, outcome>>

\* handel.join().unwrap() on a worker that ran to its end
Join ==
    /\ mainpc = "join"
    /\ joined < handles
    /\ pc[joined + 1] = "done"
    /\ joined' = joined + 1
    /\ UNCHANGED <<walkvars, inputs, queue, errors, completed, held, pc, next,
                   local_errors, dirs, mainpc, handles, percent, result,
                   taken, outcome>>

\* handel.join().unwrap() on a worker that panicked: backup() panics too
JoinPanic ==
    /\ mainpc = "join"
    /\ joined < handles
    /\ pc[joined + 1] = "panicked"
    /\ mainpc' = "aborted"
    /\ UNCHANGED <<walkvars, inputs, queue, errors, completed, held, pc, next,
                   local_errors, dirs, handles, joined, percent, result,
                   taken, outcome>>

\* Arc::try_unwrap(errors_mutex).unwrap().into_inner().unwrap()
Return ==
    /\ mainpc = "join"
    /\ joined = handles
    /\ mainpc' = "returned"
    /\ result' = errors
    /\ UNCHANGED <<walkvars, inputs, queue, errors, completed, held, pc, next,
                   local_errors, dirs, handles, joined, percent, taken, outcome>>

Main == Spawn \/ SpawnDone \/ Bar \/ Sleep \/ Join \/ JoinPanic \/ Return

(***************************************************************************)
(* The closure each worker thread runs                                     *)
(***************************************************************************)

\* queue.lock().unwrap()
LockQueue(w) ==
    /\ Running
    /\ pc[w] = "lock_queue"
    /\ held["queue"] = 0
    /\ held' = [held EXCEPT !["queue"] = w]
    /\ pc' = [pc EXCEPT ![w] = "next"]
    /\ UNCHANGED <<walkvars, inputs, queue, errors, completed, next, local_errors, dirs,
                   mainvars, taken, outcome>>

\* QueueNext with the guard bound to a variable that lives through the
\* match: the queue mutex stays locked while the job is processed.
QueueNextHold(w) ==
    /\ Running
    /\ pc[w] = "next"
    /\ held["queue"] = w
    /\ IF queue # <<>>
          THEN /\ next' = [next EXCEPT ![w] = Head(queue)]
               /\ queue' = Tail(queue)
               /\ taken' = [taken EXCEPT ![w] = Append(@, Head(queue))]
               /\ pc' = [pc EXCEPT ![w] = "check_dir"]
               /\ UNCHANGED held
          ELSE /\ pc' = [pc EXCEPT ![w] = "lock_merge"]
               /\ held' = [held EXCEPT !["queue"] = 0]
               /\ UNCHANGED <<next, queue, taken>>
    /\ UNCHANGED <<walkvars, inputs, errors, completed, local_errors, dirs, mainvars,
                   outcome>>

\* QueueNext with the iterator advanced twice per take: a job is dropped.
QueueNextSkip(w) ==
    /\ Running
    /\ pc[w] = "next"
    /\ held["queue"] = w
    /\ held' = [held EXCEPT !["queue"] = 0]
    /\ IF queue # <<>>
          THEN /\ next' = [next EXCEPT ![w] = Head(queue)]
               /\ queue' = IF Len(queue) >= 2 THEN Tail(Tail(queue)) ELSE <<>>
               /\ taken' = [taken EXCEPT ![w] = Append(@, Head(queue))]
               /\ pc' = [pc EXCEPT ![w] = "check_dir"]
          ELSE /\ pc' = [pc EXCEPT ![w] = "lock_merge"]
               /\ UNCHANGED <<next, queue, taken>>
    /\ UNCHANGED <<walkvars, inputs, errors, completed, local_errors, dirs, mainvars,
                   outcome>>

\* let next = <guard>.next(); the guard is dropped; match next { ... }
QueueNext(w) ==
    /\ Running
    /\ pc[w] = "next"
    /\ held["queue"] = w
    /\ held' = [held EXCEPT !["queue"] = 0]
    /\ IF queue # <<>>
          THEN /\ next' = [next EXCEPT ![w] = Head(queue)]
               /\ queue' = Tail(queue)
               /\ taken' = [taken EXCEPT ![w] = Append(@, Head(queue))]
               /\ pc' = [pc EXCEPT ![w] = "check_dir"]
          ELSE /\ pc' = [pc EXCEPT ![w] = "lock_merge"]
               /\ UNCHANGED <<next, queue, taken>>
    /\ UNCHANGED <<walkvars, inputs, errors, completed, local_errors, dirs, mainvars,
                   outcome>>

\* if !dest.parent().unwrap().is_dir()
CheckDir(w) ==
    /\ Running
    /\ pc[w] = "check_dir"
    /\ pc' = [pc EXCEPT ![w] = IF parent(next[w]) \in dirs THEN "copy" ELSE "mkdir"]
    /\ UNCHANGED <<walkvars, inputs, queue, errors, completed, held, next, local_errors,
                   dirs, mainvars, taken, outcome>>

\* CreateDir without .recursive(true): like fs::create_dir, it fails on a
\* directory that exists by now, and the unwrap panics the worker.
CreateDirExclusive(w) ==
    /\ Running
    /\ pc[w] = "mkdir"
    /\ \E ok \in BOOLEAN :
          /\ (parent(next[w]) \in dirs) => ~ok
          /\ IF ok
                THEN /\ dirs' = dirs \cup {parent(next[w])}
                     /\ pc' = [pc EXCEPT ![w] = "copy"]
                     /\ UNCHANGED outcome
                ELSE /\ pc' = [pc EXCEPT ![w] = "panicked"]
                     /\ outcome' = [outcome EXCEPT ![next[w][1]] = "mkdir_failed"]
                     /\ UNCHANGED dirs
    /\ UNCHANGED <<walkvars, inputs, queue, errors, completed, held, next, local_errors,
                   mainvars, taken>>

\* DirBuilder::new().recursive(true).create(parent).unwrap(): a directory
\* that exists by now is accepted (outcome "dir_present" notes that another
\* thread made it after the test); creating a missing one may fail, and the
\* unwrap then panics the worker thread.
CreateDir(w) ==
    /\ Running
    /\ pc[w] = "mkdir"
    /\ \E ok \in BOOLEAN :
          /\ (parent(next[w]) \in dirs) => ok
          /\ IF ok
                THEN /\ dirs' = dirs \cup {parent(next[w])}
                     /\ pc' = [pc EXCEPT ![w] = "copy"]
                     /\ outcome' = IF parent(next[w]) \in dirs
                                      THEN [outcome EXCEPT ![next[w][1]] = "dir_present"]
                                      ELSE outcome
                ELSE /\ pc' = [pc EXCEPT ![w] = "panicked"]
                     /\ outcome' = [outcome EXCEPT ![next[w][1]] = "mkdir_failed"]
                     /\ UNCHANGED dirs
    /\ UNCHANGED <<walkvars, inputs, queue, errors, completed, held, next, local_errors,
                   mainvars, taken>>

\* match fs::copy(&src, &dest) { Ok(_) => (), Err(error) => { ... } }
CopyFile(w) ==
    /\ Running
    /\ pc[w] = "copy"
    /\ \E ok \in BOOLEAN :
          IF ok
             THEN /\ outcome' = [outcome EXCEPT ![next[w][1]] = "copied"]
                  /\ pc' = [pc EXCEPT ![w] = "lock_completed"]
             ELSE /\ outcome' = [outcome EXCEPT ![next[w][1]] = "copy_failed"]
                  /\ pc' = [pc EXCEPT ![w] = "lock_errors"]
    /\ UNCHANGED <<walkvars, inputs, queue, errors, completed, held, next, local_errors,
                   dirs, mainvars, taken>>

\* let mut _errors = errors.lock().unwrap();
LockErrors(w) ==
    /\ Running
    /\ pc[w] = "lock_errors"
    /\ held["errors"] = 0
    /\ held' = [held EXCEPT !["errors"] = w]
    /\ pc' = [pc EXCEPT ![w] = "push_error"]
    /\ UNCHANGED <<walkvars, inputs, queue, errors, completed, next, local_errors, dirs,
                   mainvars, taken, outcome>>

\* PushError with the error guard declared outside the match: the errors
\* mutex is still locked when the worker locks the counter.
PushErrorKeep(w) ==
    /\ Running
    /\ pc[w] = "push_error"
    /\ held["errors"] = w
    /\ local_errors' = [local_errors EXCEPT ![w] = Append(@, next[w])]
    /\ pc' = [pc EXCEPT ![w] = "lock_completed"]
    /\ UNCHANGED <<walkvars, inputs, queue, errors, completed, held, next, dirs,
                   mainvars, taken, outcome>>

\* PushError followed by `continue 'main`: a failed job is not counted.
PushErrorContinue(w) ==
    /\ Running
    /\ pc[w] = "push_error"
    /\ held["errors"] = w
    /\ local_errors' = [local_errors EXCEPT ![w] = Append(@, next[w])]
    /\ held' = [held EXCEPT !["errors"] = 0]
    /\ pc' = [pc EXCEPT ![w] = "lock_queue"]
    /\ UNCHANGED <<walkvars, inputs, queue, errors, completed, next, dirs, mainvars,
                   taken, outcome>>

\* PushError that also counts the job: a failed job is counted twice.
PushErrorCount(w) ==
    /\ Running
    /\ pc[w] = "push_error"
    /\ held["errors"] = w
    /\ local_errors' = [local_errors EXCEPT ![w] = Append(@, next[w])]
    /\ completed' = completed + 1
    /\ held' = [held EXCEPT !["errors"] = 0]
    /\ pc' = [pc EXCEPT ![w] = "lock_completed"]
    /\ UNCHANGED <<walkvars, inputs, queue, errors, next, dirs, mainvars, taken, outcome>>

\* PushError followed by `break 'main`: the worker stops at its first failure.
PushErrorBreak(w) ==
    /\ Running
    /\ pc[w] = "push_error"
    /\ held["errors"] = w
    /\ local_errors' = [local_errors EXCEPT ![w] = Append(@, next[w])]
    /\ held' = [held EXCEPT !["errors"] = 0]
    /\ pc' = [pc EXCEPT ![w] = "lock_merge"]
    /\ UNCHANGED <<walkvars, inputs, queue, errors, completed, next, dirs, mainvars,
                   taken, outcome>>

\* local_errors.push(format!(...src, dest, error)); _errors is dropped
PushError(w) ==
    /\ Running
    /\ pc[w] = "push_error"
    /\ held["errors"] = w
    /\ local_errors' = [local_errors EXCEPT ![w] = Append(@, next[w])]
    /\ held' = [held EXCEPT !["errors"] = 0]
    /\ pc' = [pc EXCEPT ![w] = "lock_completed"]
    /\ UNCHANGED <<walkvars, inputs, queue, errors, completed, next, dirs, mainvars,
                   taken, outcome>>

\* let mut completed = completed.lock().unwrap();
LockCompleted(w) ==
    /\ Running
    /\ pc[w] = "lock_completed"
    /\ held["completed"] = 0
    /\ held' = [held EXCEPT !["completed"] = w]
    /\ pc' = [pc EXCEPT ![w] = "incr"]
    /\ UNCHANGED <<walkvars, inputs, queue, errors, completed, next, local_errors, dirs,
                   mainvars, taken, outcome>>

\* *completed += 1; the guard is dropped at the end of the loop body
Incr(w) ==
    /\ Running
    /\ pc[w] = "incr"
    /\ held["completed"] = w
    /\ completed' = completed + 1
    /\ held' = [held EXCEPT !["completed"] = 0]
    /\ next' = [next EXCEPT ![w] = NoJob]
    /\ pc' = [pc EXCEPT ![w] = "lock_queue"]
    /\ UNCHANGED <<walkvars, inputs, queue, errors, local_errors, dirs, mainvars, taken,
                   outcome>>

\* after the loop: errors.lock().unwrap()
LockMerge(w) ==
    /\ Running
    /\ pc[w] = "lock_merge"
    /\ held["errors"] = 0
    /\ held' = [held EXCEPT !["errors"] = w]
    /\ pc' = [pc EXCEPT ![w] = "merge"]
    /\ UNCHANGED <<walkvars, inputs, queue, errors, completed, next, local_errors, dirs,
                   mainvars, taken, outcome>>

\* Merge that assigns instead of extending: earlier workers' errors are lost.
MergeOverwrite(w) ==
    /\ Running
    /\ pc[w] = "merge"
    /\ held["errors"] = w
    /\ errors' = local_errors[w]
    /\ local_errors' = [local_errors EXCEPT ![w] = <<>>]
    /\ held' = [held EXCEPT !["errors"] = 0]
    /\ pc' = [pc EXCEPT ![w] = "done"]
    /\ UNCHANGED <<walkvars, inputs, queue, completed, next, dirs, mainvars, taken,
                   outcome>>

\* <guard>.extend(local_errors.into_iter()); the thread ends
Merge(w) ==
    /\ Running
    /\ pc[w] = "merge"
    /\ held["errors"] = w
    /\ errors' = errors \o local_errors[w]
    /\ local_errors' = [local_errors EXCEPT ![w] = <<>>]
    /\ held' = [held EXCEPT !["errors"] = 0]
    /\ pc' = [pc EXCEPT ![w] = "done"]
    /\ UNCHANGED <<walkvars, inputs, queue, completed, next, dirs, mainvars, taken,
                   outcome>>

Worker(w) ==
    \/ LockQueue(w) \/ QueueNext(w) \/ CheckDir(w) \/ CreateDir(w)
    \/ CopyFile(w) \/ LockErrors(w) \/ PushError(w) \/ LockCompleted(w)
    \/ Incr(w) \/ LockMerge(w) \/ Merge(w)

Next == Main \/ \E w \in Workers : Worker(w)

Spec == Init /\ [][Next]_vars

\* Every thread that can take a step eventually takes one.
FairSpec == Spec /\ WF_vars(Main) /\ \A w \in Workers : WF_vars(Worker(w))

(***************************************************************************)
(* walk()                                                                  *)
(***************************************************************************)

\* gvars.dest(): the destination root, which check_permissions() has created
dest_root == <<1>>

\* format!("Failed to read {:?}.\n{}", &source, &error)
read_error(source) == <<source, <<>>>>

\* fs::read_dir(&source): the entries of source in the order of the listing
read_dir(source, fs, ord) ==
    SelectSeq(ord, LAMBDA n : ParentOf(n) = source /\ fs[n].exists)

\* read_failed without the push: an unreadable directory leaves no trace.
read_failed_silent(q, e, source) ==
    [queue |-> q, errors |-> e, panicked |-> FALSE]

\* Err(error) => { errors.push(format!(...)); return (queue, errors); }
read_failed(q, e, source) ==
    [queue |-> q, errors |-> Append(e, read_error(source)), panicked |-> FALSE]

\* is_match that lets every directory through, whatever its path.
is_match_or_dir(fs, src) == fs[src].match \/ fs[src].kind = "dir"

\* is_match that ignores the pattern: every entry is let through.
is_match_always(fs, src) == TRUE

\* regex.is_match(&src.to_str().unwrap())
is_match(fs, src) == fs[src].match

\* the unwraps of metadata() and modified(), evaluated when update is set
\* and tmp_dest.exists()
meta_panics(fs, src, upd) ==
    upd /\ fs[src].dest # "missing" /\ ~fs[src].meta

\* is_newer with <= in place of <: a destination of the same age is kept.
is_newer_or_equal(fs, src, upd) ==
    upd /\ fs[src].dest # "missing" /\ fs[src].dest \in {"equal", "newer"}

\* is_newer that forgets to look at the update flag.
is_newer_always(fs, src, upd) ==
    fs[src].dest # "missing" /\ fs[src].dest = "newer"

\* match update { true => tmp_dest.exists() && src.modified() <
\* tmp_dest.modified(), false => (the file is queued) }
is_newer(fs, src, upd) ==
    upd /\ fs[src].dest # "missing" /\ fs[src].dest = "newer"

\* src.file_name().unwrap()
file_name(fs, src) == fs[src].name

\* join that pushes the name onto the destination root instead of the
\* destination of the directory being walked: the copy is flat.
join_flat(dest, name) == Append(dest_root, name)

\* let mut tmp_dest = PathBuf::from(&dest); tmp_dest.push(name)
join(dest, name) == Append(dest, name)

RECURSIVE walk(_, _, _, _, _, _, _)

\* the body of `for path in iter` for one entry; acc is (queue, errors)
visit(acc, src, dest, upd, fs, ord) ==
    IF fs[src].bad
       THEN acc
       ELSE IF ~is_match(fs, src)
       THEN acc
       ELSE LET tmp_dest == join(dest, file_name(fs, src)) IN
            CASE fs[src].kind = "file" ->
                    IF meta_panics(fs, src, upd)
                       THEN [acc EXCEPT !.panicked = TRUE]
                       ELSE IF is_newer(fs, src, upd)
                       THEN acc
                       ELSE [acc EXCEPT !.queue = Append(@, <<src, tmp_dest>>)]
              [] fs[src].kind = "dir" ->
                    LET child == walk(<<>>, <<>>, src, tmp_dest, upd, fs, ord) IN
                       [queue |-> acc.queue \o child.queue,
                        errors |-> acc.errors \o child.errors,
                        panicked |-> child.panicked]
              [] OTHER -> acc

RECURSIVE entries(_, _, _, _, _, _)

\* for path in iter { ... }
entries(acc, iter, dest, upd, fs, ord) ==
    IF iter = <<>> \/ acc.panicked
       THEN acc
       ELSE entries(visit(acc, Head(iter), dest, upd, fs, ord), Tail(iter),
                    dest, upd, fs, ord)

\* fn walk(queue, errors, source, dest, regex, update); q and e stand for
\* its queue and errors parameters
walk(q, e, source, dest, upd, fs, ord) ==
    IF ~fs[source].readable
       THEN read_failed(q, e, source)
       ELSE entries([queue |-> q, errors |-> e, panicked |-> FALSE],
                    read_dir(source, fs, ord), dest, upd, fs, ord)

\* The trees, flags and listing orders walk() is run on.
DestStates == {"missing", "older", "equal", "newer"}
FileStates ==
    {Entry("file", TRUE, TRUE, d, TRUE) : d \in DestStates}
        \cup {Entry("file", TRUE, TRUE, "equal", FALSE)}
LeafStates ==
    FileStates \cup {Absent, BadEntry, Entry("file", FALSE, TRUE, "missing", TRUE),
                     Entry("other", TRUE, TRUE, "missing", TRUE)}
DirStates ==
    {Entry("dir", m, r, "missing", TRUE) : m, r \in BOOLEAN} \ {Entry("dir", FALSE, FALSE, "missing", TRUE)}
RootStates == {Entry("dir", TRUE, r, "missing", TRUE) : r \in BOOLEAN}
Orders ==
    {[i \in 1..MaxNodes |-> i], [i \in 1..MaxNodes |-> MaxNodes + 1 - i]}
Shapes ==
    { t \in [{0} \cup Nodes -> LeafStates \cup DirStates \cup RootStates] :
        /\ t[0] \in RootStates
        /\ t[1] \in LeafStates \cup DirStates
        /\ t[2] \in LeafStates \cup DirStates
        /\ \A n \in Nodes : n > 2 =>
              IF t[2].kind = "dir" THEN t[n] \in LeafStates ELSE t[n] = Absent }

\* The names of the entries: distinct within a directory, and the entries
\* of node 2 are called like those of the root (sub/1 beside 1).
NameOf(n) == IF n > 2 THEN n - 2 ELSE n
named(t) == [n \in DOMAIN t |-> [t[n] EXCEPT !.name = NameOf(n)]]
Trees == { named(t) : t \in Shapes }

WalkInit ==
    /\ tree \in Trees
    /\ update \in BOOLEAN
    /\ order \in Orders
    /\ app = "walk"
    /\ walk1 = NoWalk
    /\ walk2 = NoWalk
    /\ main_errors = <<>>
    /\ queue_len = 0
    /\ logged = <<>>
    /\ jobs = <<>>
    /\ threads = 1
    /\ progress = FALSE
    /\ queue = <<>>
    /\ errors = <<>>
    /\ completed = 0
    /\ held = [m \in {"queue", "errors", "completed"} |-> 0]
    /\ pc = [w \in Workers |-> "unspawned"]
    /\ next = [w \in Workers |-> NoJob]
    /\ local_errors = [w \in Workers |-> <<>>]
    /\ dirs = {dest_root}
    /\ mainpc = "uncalled"
    /\ handles = 0
    /\ joined = 0
    /\ percent = 0
    /\ result = <<>>
    /\ taken = [w \in Workers |-> <<>>]
    /\ outcome = [f \in Nodes |-> "pending"]

backupvars == <<inputs, queue, errors, completed, held, pc, next, local_errors,
                dirs, mainvars, taken, outcome>>

\* let (queue, mut errors, ..) = walk(Vec::new(), Vec::new(), gvars.source(),
\*                                    gvars.dest(), gvars.regex(), gvars.update())
WalkTree ==
    /\ app = "walk"
    /\ walk1' = walk(<<>>, <<>>, 0, dest_root, update, tree, order)
    /\ app' = IF walk1'.panicked THEN "panicked" ELSE "walked"
    /\ UNCHANGED <<backupvars, tree, update, order, walk2, main_errors,
                   queue_len, logged>>

\* The same tree with every destination file in state d.
touched(fs, d) ==
    [n \in DOMAIN fs |->
        IF fs[n].exists /\ fs[n].kind = "file" THEN [fs[n] EXCEPT !.dest = d]
                                                ELSE fs[n]]

\* walk() is run again on the same source tree, after the destination tree
\* and the order of the listings have changed.
WalkAgain ==
    /\ app = "walked"
    /\ \E d \in DestStates, o \in Orders :
          /\ tree' = touched(tree, d)
          /\ order' = o
    /\ walk2' = walk(<<>>, <<>>, 0, dest_root, update, tree', order')
    /\ app' = IF walk2'.panicked THEN "panicked" ELSE "walked_twice"
    /\ UNCHANGED <<backupvars, update, walk1, main_errors, queue_len, logged>>

WalkNext == WalkTree \/ WalkAgain

WalkSpec == WalkInit /\ [][WalkNext]_vars

(***************************************************************************)
(* main()                                                                  *)
(***************************************************************************)

\* The names of the source tree main() is run on: a.txt (1), sub (2),
\* sub/b.txt (3), sub/c.log (4); further files are named like b.txt.
extension(n) == CASE n = 2 -> "" [] n = 4 -> "log" [] OTHER -> "txt"

\* Regex::is_match on the path of node n, for the patterns .*\.txt$ ("txt":
\* the path ends in .txt) and .* ("all", what --backup-all sets).
regex_is_match(pattern, n) == pattern = "all" \/ extension(n) = "txt"

\* That tree as walk() sees it under a pattern: r0 and r2 tell whether the
\* root and sub can be listed, d is the state of the destination files.
scenario(pattern, r0, r2, d) ==
    [n \in {0} \cup Nodes |->
        [(IF n = 0 THEN Entry("dir", TRUE, r0, "missing", TRUE)
          ELSE IF n = 2 THEN Entry("dir", regex_is_match(pattern, n), r2, "missing", TRUE)
          ELSE Entry("file", regex_is_match(pattern, n), TRUE, d, TRUE))
         EXCEPT !.name = n]]

\* The destinations main() is run on, each with the update flag it is run
\* with: a first run into an empty destination, a first run into one where
\* sub exists, and a later run (with or without --update) over the newer
\* copies an earlier run has left.
MainRuns ==
    {[dest |-> "missing", dirs |-> {dest_root}, update |-> FALSE],
     [dest |-> "missing", dirs |-> {dest_root, Append(dest_root, 2)}, update |-> FALSE],
     [dest |-> "newer", dirs |-> {dest_root, Append(dest_root, 2)}, update |-> FALSE],
     [dest |-> "newer", dirs |-> {dest_root, Append(dest_root, 2)}, update |-> TRUE]}

\* The state in which main() calls walk(), check_permissions() having
\* succeeded; threads, progress and update are what GlobalVars::from parsed.
MainInit ==
    /\ \E run \in MainRuns :
          /\ tree \in {scenario(p, r0, r2, run.dest) :
                          p \in {"txt", "all"}, r0 \in BOOLEAN, r2 \in BOOLEAN}
          /\ update = run.update
          /\ dirs = run.dirs
    /\ order = [i \in 1..MaxNodes |-> i]
    /\ app = "walk"
    /\ walk1 = NoWalk
    /\ walk2 = NoWalk
    /\ main_errors = <<>>
    /\ queue_len = 0
    /\ logged = <<>>
    /\ jobs = <<>>
    /\ threads \in ThreadCounts
    /\ progress \in BOOLEAN
    /\ queue = <<>>
    /\ errors = <<>>
    /\ completed = 0
    /\ held = [m \in {"queue", "errors", "completed"} |-> 0]
    /\ pc = [w \in Workers |-> "unspawned"]
    /\ next = [w \in Workers |-> NoJob]
    /\ local_errors = [w \in Workers |-> <<>>]
    /\ mainpc = "uncalled"
    /\ handles = 0
    /\ joined = 0
    /\ percent = 0
    /\ result = <<>>
    /\ taken = [w \in Workers |-> <<>>]
    /\ outcome = [f \in Nodes |-> "pending"]

\* let queue_len = &queue.len(); ...
\* backup(queue, gvars.threads(), gvars.bar(), gvars.quite()) is entered
CallBackup ==
    /\ app = "walked"
    /\ queue_len' = Len(walk1.queue)
    /\ main_errors' = walk1.errors
    /\ jobs' = walk1.queue
    /\ queue' = walk1.queue
    /\ errors' = <<>>
    /\ completed' = 0
    /\ mainpc' = "spawn"
    /\ app' = "backup"
    /\ UNCHANGED <<threads, progress, held, pc, next, local_errors, dirs,
                   handles, joined, percent, result, taken, outcome, tree,
                   update, order, walk1, walk2, logged>>

\* Extend that assigns: errors = backup(...); the read errors are lost.
ExtendReplace ==
    /\ app = "backup"
    /\ mainpc = "returned"
    /\ main_errors' = result
    /\ app' = "summary"
    /\ UNCHANGED <<backupvars, tree, update, order, walk1, walk2, queue_len,
                   logged>>

\* errors.extend(backup(...).into_iter())
Extend ==
    /\ app = "backup"
    /\ mainpc = "returned"
    /\ main_errors' = main_errors \o result
    /\ app' = "summary"
    /\ UNCHANGED <<backupvars, tree, update, order, walk1, walk2, queue_len,
                   logged>>

\* if gvars.quite() { println!(.., queue_len - errors.len()); .. }: the
\* lines are printed unless --quite was given, which --progress excludes;
\* a usize subtraction that underflows panics in a build with overflow
\* checks and wraps in one without.
Summary ==
    /\ app = "summary"
    /\ \E verbose \in BOOLEAN, checked \in BOOLEAN :
          /\ progress => verbose
          /\ app' = IF verbose /\ checked /\ queue_len < Len(main_errors)
                       THEN "panicked" ELSE "log"
    /\ UNCHANGED <<backupvars, tree, update, order, walk1, walk2, main_errors,
                   queue_len, logged>>

\* write_log(&mut errors, gvars.log(), gvars.quite(), gvars.force_log())
WriteLog ==
    /\ app = "log"
    /\ logged' = main_errors
    /\ app' = "done"
    /\ UNCHANGED <<backupvars, tree, update, order, walk1, walk2, main_errors,
                   queue_len>>

MainNext == WalkTree \/ CallBackup \/ Next \/ Extend \/ Summary \/ WriteLog

MainSpec == MainInit /\ [][MainNext]_vars

(***************************************************************************)
(* Properties                                                              *)
(***************************************************************************)

Range(s) == {s[i] : i \in DOMAIN s}
Count(s, x) == Cardinality({i \in DOMAIN s : s[i] = x})
Spawned == 1..handles

\* A worker that holds a job it has not yet counted.
InFlight(w) ==
    pc[w] \in {"check_dir", "mkdir", "copy", "lock_errors", "push_error",
               "lock_completed", "incr"}

\* A worker that left its loop.
LeftLoop(w) == pc[w] \in {"lock_merge", "merge", "done"}

\* A worker one of whose jobs failed to copy.
HadCopyFailure(w) == \E j \in Range(taken[w]) : outcome[j[1]] = "copy_failed"

\* C1: with 1 <= threads <= n, no job is taken twice (neither by two workers
\* nor twice by one), and when backup() has returned the jobs taken by the
\* workers are together exactly the jobs backup() was given.
C1_ExactlyOnce ==
    (1 <= threads /\ threads <= total) =>
        /\ \A w1, w2 \in Workers :
              w1 # w2 => Range(taken[w1]) \cap Range(taken[w2]) = {}
        /\ \A w \in Workers : Cardinality(Range(taken[w])) = Len(taken[w])
        /\ mainpc = "returned" =>
              UNION {Range(taken[w]) : w \in Workers} = Range(jobs)

C1_Witness ==
    /\ mainpc = "returned"
    /\ threads = 2
    /\ total >= 2
    /\ taken[1] # <<>>
    /\ taken[2] # <<>>

\* C2: with at least one worker, the completed-count equals the number of
\* jobs when backup() has returned, whatever the outcomes of the jobs.
C2_CompletedAtReturn ==
    (threads >= 1 /\ mainpc = "returned") => completed = total

C2_Witness ==
    /\ mainpc = "returned"
    /\ threads >= 1
    /\ total >= 2
    /\ completed = total
    /\ \E f \in Files : outcome[f] = "copy_failed"
    /\ \E f \in Files : outcome[f] = "copied"

\* C3: the completed-count always lies in 0..total and no step decreases it.
C3_Bounded ==
    /\ [](0 <= completed /\ completed <= total)
    /\ [][completed' >= completed]_vars

C3_Witness ==
    /\ total >= 2
    /\ completed = total
    /\ \E f \in Files : outcome[f] = "copy_failed"

\* C4: when backup() has returned, its error list holds exactly one entry
\* for each job whose copy failed, none for any other job, and nothing else.
C4_ErrorsExact ==
    (threads >= 1 /\ mainpc = "returned") =>
        /\ \A i \in DOMAIN jobs :
              Count(result, jobs[i]) =
                  IF outcome[jobs[i][1]] = "copy_failed" THEN 1 ELSE 0
        /\ Range(result) \subseteq Range(jobs)

C4_Witness ==
    /\ mainpc = "returned"
    /\ \E j \in Range(taken[1]) : outcome[j[1]] = "copy_failed"
    /\ \E j \in Range(taken[2]) : outcome[j[1]] = "copy_failed"
    /\ \E f \in Files : outcome[f] = "copied"
    /\ Len(result) = 2

\* C5: a job whose destination directory cannot be created is recorded and
\* nothing else happens: its worker keeps running, backup() is not aborted,
\* and the returned error list has one entry for the job.
C5_DirFailureIsLocal ==
    \A w \in Workers : \A j \in Range(taken[w]) :
        outcome[j[1]] = "mkdir_failed" =>
            /\ pc[w] # "panicked"
            /\ mainpc # "aborted"
            /\ mainpc = "returned" => Count(result, j) = 1

\* C6: a worker that had a copy failure goes on to count the job and to ask
\* the queue again, and it leaves its loop only when the queue is exhausted.
C6_ContinuesAfterFailure ==
    /\ [](\A w \in Workers : HadCopyFailure(w) /\ LeftLoop(w) => queue = <<>>)
    /\ [][\A w \in Workers :
            /\ (pc[w] = "push_error" /\ pc'[w] # "push_error")
                  => pc'[w] = "lock_completed"
            /\ (pc[w] = "incr" /\ pc'[w] # "incr") => pc'[w] = "lock_queue"]_vars

C6_Witness ==
    \E w \in Workers : \E i, k \in DOMAIN taken[w] :
        /\ i < k
        /\ outcome[taken[w][i][1]] = "copy_failed"
        /\ outcome[taken[w][k][1]] = "copied"
        /\ pc[w] = "done"

\* C7: whenever no worker is in the middle of a job, the completed-count is
\* the number of jobs taken from the queue, and it equals total exactly
\* when every job has been taken once.
C7_CountsEveryTakenJob ==
    (\A w \in Workers : ~InFlight(w)) =>
        /\ completed = Cardinality(UNION {Range(taken[w]) : w \in Workers})
        /\ completed = total <=>
              /\ UNION {Range(taken[w]) : w \in Workers} = Range(jobs)
              /\ \A w1, w2 \in Workers :
                    w1 # w2 => Range(taken[w1]) \cap Range(taken[w2]) = {}
              /\ \A w \in Workers : Cardinality(Range(taken[w])) = Len(taken[w])

\* C8: with at least one worker backup() eventually returns, and it has
\* returned only when the queue is exhausted and every worker has ended.
C8_Terminates ==
    /\ (threads >= 1) => <>(mainpc = "returned")
    /\ [](threads >= 1 /\ mainpc = "returned" =>
            queue = <<>> /\ \A w \in 1..threads : pc[w] = "done")

\* C9: with an empty job list and at least one worker backup() eventually
\* returns an empty error list, the completed-count being 0.
C9_EmptyList ==
    (jobs = <<>> /\ threads >= 1) =>
        <>(mainpc = "returned" /\ result = <<>> /\ completed = 0)

\* C10: with progress enabled the renderer leaves its loop only when
\* completed = total, a poll that sees completed = total ends the loop, and
\* the loop always ends.
C10_RendererStops ==
    /\ [][threads >= 1 /\ mainpc = "bar" /\ mainpc' = "join"
            => completed = total]_vars
    /\ [][threads >= 1 /\ mainpc = "bar" /\ mainpc' # "bar" /\ completed = total
            => mainpc' = "join"]_vars
    /\ (progress /\ threads >= 1) => <>(mainpc \notin {"spawn", "bar", "sleep"})

Mutexes == {"queue", "errors", "completed"}
HeldBy(w) == {m \in Mutexes : held[m] = w}

\* C11: no worker ever holds more than one of the three mutexes.
C11_OneLockAtATime ==
    \A w \in Workers : Cardinality(HeldBy(w)) <= 1

C11_Witness ==
    /\ held["errors"] = 1
    /\ held["completed"] = 2
    /\ pc[1] = "push_error"

\* C12: a worker that tests, creates or copies holds no mutex.
C12_NoLockDuringIO ==
    \A w \in Workers :
        pc[w] \in {"check_dir", "mkdir", "copy"} => HeldBy(w) = {}

C12_Witness ==
    /\ pc[1] = "copy"
    /\ pc[2] = "copy"
    /\ next[1] # next[2]

\* An entry that read_dir yields as Ok and whose path matches the filter.
Listed(fs, n) == fs[n].exists /\ ~fs[n].bad /\ fs[n].match

\* A directory walk() is called on and can list.
RECURSIVE Entered(_, _)
Entered(fs, d) ==
    IF d = 0
       THEN fs[0].readable
       ELSE /\ Listed(fs, d)
            /\ fs[d].kind = "dir"
            /\ fs[d].readable
            /\ Entered(fs, ParentOf(d))

\* A directory walk() is called on.
Called(fs, d) ==
    d = 0 \/ (Listed(fs, d) /\ fs[d].kind = "dir" /\ Entered(fs, ParentOf(d)))

\* A matching regular file in a directory walk() lists.
MatchingFile(fs, n) ==
    Listed(fs, n) /\ fs[n].kind = "file" /\ Entered(fs, ParentOf(n))

Queued(w, n) == Cardinality({i \in DOMAIN w.queue : w.queue[i][1] = n})
Recorded(w, n) == Cardinality({i \in DOMAIN w.errors : w.errors[i][1] = n})

\* C14: when walk() has returned, a matching regular file is queued (once)
\* unless update is set and its destination exists and is strictly newer;
\* so it is queued when the destination is missing or of the same age, and
\* always when update is not set.
C14_UpdateSkip ==
    app = "walked" =>
        \A n \in Nodes : MatchingFile(tree, n) =>
            Queued(walk1, n) =
                IF update /\ tree[n].dest = "newer" THEN 0 ELSE 1

C14_Witness ==
    /\ app = "walked"
    /\ update
    /\ \E n \in Nodes :
          MatchingFile(tree, n) /\ tree[n].dest = "equal" /\ Queued(walk1, n) = 1
    /\ \E n \in Nodes :
          MatchingFile(tree, n) /\ tree[n].dest = "missing" /\ Queued(walk1, n) = 1
    /\ \E n \in Nodes :
          MatchingFile(tree, n) /\ tree[n].dest = "newer" /\ Queued(walk1, n) = 0

\* The same tree with directory d readable and empty.
emptied(fs, d) ==
    [n \in DOMAIN fs |->
        IF n = d THEN [fs[n] EXCEPT !.readable = TRUE]
        ELSE IF n # 0 /\ ParentOf(n) = d THEN [fs[n] EXCEPT !.exists = FALSE]
        ELSE fs[n]]

\* C15: when walk() has returned, each directory it was called on and could
\* not list has exactly one error and no job below it; if it is the root the
\* queue is empty and there is one error; and apart from that error the
\* result is the one walk() computes when the directory is empty.
C15_UnreadableDir ==
    app = "walked" =>
        \A d \in {0} \cup Nodes :
            (Called(tree, d) /\ ~tree[d].readable) =>
                /\ Recorded(walk1, d) = 1
                /\ \A i \in DOMAIN walk1.queue : ParentOf(walk1.queue[i][1]) # d
                /\ d = 0 => walk1.queue = <<>> /\ Len(walk1.errors) = 1
                /\ LET e == walk(<<>>, <<>>, 0, dest_root, update,
                                 emptied(tree, d), order) IN
                      /\ walk1.queue = e.queue
                      /\ SelectSeq(walk1.errors, LAMBDA x : x # read_error(d))
                            = e.errors

C15_Witness ==
    /\ app = "walked"
    /\ Called(tree, 2)
    /\ ~tree[2].readable
    /\ \E n \in Nodes : ParentOf(n) = 2 /\ n # 2 /\ Listed(tree, n) /\ tree[n].kind = "file"
    /\ walk1.queue # <<>>
    /\ walk1.errors = <<read_error(2)>>

\* C17: when walk() has returned, every entry whose enumeration failed has
\* an entry in the returned error list.
C17_EntryErrorRecorded ==
    app = "walked" =>
        \A n \in Nodes :
            (tree[n].exists /\ tree[n].bad /\ Entered(tree, ParentOf(n))) =>
                Recorded(walk1, n) = 1

\* C18: walk() never aborts, and when it has returned every matching entry
\* that is neither a regular file nor a directory has one entry in the
\* returned error list.
C18_UnclassifiedRecorded ==
    /\ app # "panicked"
    /\ app = "walked" =>
          \A n \in Nodes :
              (Listed(tree, n) /\ tree[n].kind = "other"
                  /\ Entered(tree, ParentOf(n))) => Recorded(walk1, n) = 1

\* C20: with update not set, two runs of walk() over the same source tree
\* return the same set of jobs and as many of them, whatever the state of
\* the destination files and the order of the listings in each run.
C20_Idempotent ==
    (app = "walked_twice" /\ ~update) =>
        /\ Range(walk1.queue) = Range(walk2.queue)
        /\ Len(walk1.queue) = Len(walk2.queue)

C20_Witness ==
    /\ app = "walked_twice"
    /\ ~update
    /\ Len(walk1.queue) >= 2
    /\ walk1.queue # walk2.queue
    /\ \E n \in Nodes : MatchingFile(tree, n) /\ tree[n].dest = "newer"

\* C13: backup() is only ever entered with threads >= 1.
C13_ThreadsChecked ==
    mainpc # "uncalled" => threads >= 1

\* The run of the scenario: {a.txt, sub/b.txt, sub/c.log}, filter .*\.txt$,
\* update not set, 2 workers, everything readable.
IsScenario ==
    /\ \E d \in {"missing", "newer"} : tree = scenario("txt", TRUE, TRUE, d)
    /\ ~update
    /\ threads = 2

\* C16 as stated: in the scenario walk() returns the jobs of a.txt and
\* sub/b.txt and no error, and when backup() has returned the count is 2
\* and, the copies having succeeded, the error list is empty.
C16_Scenario ==
    IsScenario =>
        /\ app # "walk" =>
              /\ Range(walk1.queue) = {<<1, <<1, 1>>>>, <<3, <<1, 2, 3>>>>}
              /\ Len(walk1.queue) = 2
              /\ walk1.errors = <<>>
        /\ mainpc = "returned" =>
              /\ completed = 2
              /\ (\A f \in {1, 3} : outcome[f] = "copied") => result = <<>>

\* C16 as amended: in the scenario walk() returns the job of a.txt alone
\* (sub does not match the filter and is not listed) and no error, and when
\* backup() has returned the count is 1 and, the copy having succeeded, the
\* error list is empty.
C16_ScenarioAmended ==
    IsScenario =>
        /\ app # "walk" =>
              /\ walk1.queue = << <<1, <<1, 1>>>> >>
              /\ walk1.errors = <<>>
        /\ mainpc = "returned" =>
              /\ completed = 1
              /\ outcome[1] = "copied" => result = <<>>

C16_Witness ==
    /\ IsScenario
    /\ app = "done"
    /\ completed = 1
    /\ outcome[1] = "copied"
    /\ outcome[3] = "pending"
    /\ logged = <<>>

\* C19: the list write_log() is called with is the errors of walk() followed
\* by the errors backup() returned.
C19_MergedErrors ==
    app = "done" => logged = walk1.errors \o result

C19_Witness ==
    /\ app = "done"
    /\ walk1.errors # <<>>
    /\ result # <<>>
    /\ Len(logged) = Len(walk1.errors) + Len(result)

\* s is what is left of t after some elements were taken from its front.
IsSuffix(s, t) ==
    Len(s) <= Len(t) /\ s = SubSeq(t, Len(t) - Len(s) + 1, Len(t))

\* C21: when the first worker is spawned walk() has returned, and the job
\* list and the error list main() holds are the complete ones it returned;
\* once a worker is spawned the result of walk() and the job list do not
\* change and the shared queue only loses jobs from its front.
C21_WalkThenCopy ==
    /\ [](handles > 0 =>
            /\ app \notin {"walk", "walked"}
            /\ jobs = walk1.queue
            /\ queue_len = Len(walk1.queue)
            /\ IsSuffix(queue, walk1.queue)
            /\ SubSeq(main_errors, 1, Len(walk1.errors)) = walk1.errors)
    /\ [][handles > 0 =>
            /\ walk1' = walk1
            /\ jobs' = jobs
            /\ IsSuffix(queue', queue)]_vars
    /\ [][handles = 0 /\ handles' > 0 => app = "backup" /\ queue = walk1.queue]_vars

C21_Witness ==
    /\ app = "backup"
    /\ handles = 2
    /\ walk1.errors # <<>>
    /\ Len(jobs) >= 1
    /\ taken[2] # <<>>
    /\ pc[1] = "lock_queue"

\* Every directory between the walk root and entry n matches the filter.
RECURSIVE AncestorsMatch(_, _)
AncestorsMatch(fs, n) ==
    ParentOf(n) = 0 \/ (fs[ParentOf(n)].match /\ AncestorsMatch(fs, ParentOf(n)))

\* A regular file the listing of its directory can yield.
RegularFile(fs, n) == fs[n].exists /\ ~fs[n].bad /\ fs[n].kind = "file"

\* The update-mode rule lets file n through.
UpdateAllows(fs, n, upd) == ~(upd /\ fs[n].dest = "newer")

\* C22 as stated: when walk() has returned, a regular file is queued if and
\* only if its path matches the filter and so does every directory between
\* the walk root and the file (and the update-mode rule lets it through).
C22_FilterOnPath ==
    app = "walked" =>
        \A n \in Nodes : RegularFile(tree, n) =>
            (Queued(walk1, n) >= 1 <=>
                /\ tree[n].match
                /\ AncestorsMatch(tree, n)
                /\ UpdateAllows(tree, n, update))

\* C22 as amended: when walk() has returned, a regular file is queued (once)
\* if and only if its path matches the filter, every directory between the
\* walk root and the file matches the filter, the walk root and each of
\* these directories can be listed, and the update-mode rule lets the file
\* through; no file of a directory that does not match is queued.
C22_FilterOnPathAmended ==
    app = "walked" =>
        /\ \A n \in Nodes : RegularFile(tree, n) =>
              /\ Queued(walk1, n) \in {0, 1}
              /\ Queued(walk1, n) = 1 <=>
                    /\ tree[n].match
                    /\ AncestorsMatch(tree, n)
                    /\ Entered(tree, ParentOf(n))
                    /\ UpdateAllows(tree, n, update)
        /\ \A d \in Nodes : (tree[d].exists /\ ~tree[d].match) =>
              \A i \in DOMAIN walk1.queue : ParentOf(walk1.queue[i][1]) # d
        /\ \A i \in DOMAIN walk1.queue : RegularFile(tree, walk1.queue[i][1])

C22_Witness ==
    /\ app = "walked"
    /\ tree[2].exists /\ tree[2].kind = "dir" /\ ~tree[2].match /\ tree[2].readable
    /\ \E n \in Nodes :
          ParentOf(n) = 2 /\ RegularFile(tree, n) /\ tree[n].match
              /\ UpdateAllows(tree, n, update) /\ Queued(walk1, n) = 0
    /\ RegularFile(tree, 1) /\ tree[1].match /\ Queued(walk1, 1) = 1

\* The path of entry n relative to the walk root, and its depth.
RECURSIVE RelPath(_, _)
RelPath(fs, n) ==
    IF ParentOf(n) = 0 THEN <<fs[n].name>>
                       ELSE Append(RelPath(fs, ParentOf(n)), fs[n].name)

\* C23: when walk() has returned, the destination of every job is the
\* destination root followed by the path of the source file relative to the
\* walk root (so it lies as deep under the one as the file under the
\* other), and no two jobs have the same destination.
C23_DestMirrorsSource ==
    app = "walked" =>
        /\ \A i \in DOMAIN walk1.queue :
              /\ walk1.queue[i][2] = dest_root \o RelPath(tree, walk1.queue[i][1])
              /\ Len(walk1.queue[i][2]) =
                    Len(dest_root) + (IF ParentOf(walk1.queue[i][1]) = 0 THEN 1 ELSE 2)
        /\ \A i, k \in DOMAIN walk1.queue :
              i # k => walk1.queue[i][2] # walk1.queue[k][2]

C23_Witness ==
    /\ app = "walked"
    /\ \E i, k \in DOMAIN walk1.queue :
          /\ ParentOf(walk1.queue[i][1]) = 0
          /\ ParentOf(walk1.queue[k][1]) = 2
          /\ tree[walk1.queue[i][1]].name = tree[walk1.queue[k][1]].name
          /\ Len(walk1.queue[k][2]) = Len(walk1.queue[i][2]) + 1

\* C24: with more workers than jobs (threads > total, total = 0 included)
\* no job is taken twice; a worker that finds the queue exhausted leaves its
\* loop without taking a job and without touching the counter; and
\* backup() eventually returns, with completed = total and every job taken.
C24_SurplusWorkers ==
    /\ [](threads > total =>
            /\ \A w1, w2 \in Workers :
                  w1 # w2 => Range(taken[w1]) \cap Range(taken[w2]) = {}
            /\ \A w \in Workers : Cardinality(Range(taken[w])) = Len(taken[w])
            /\ mainpc = "returned" =>
                  /\ completed = total
                  /\ UNION {Range(taken[w]) : w \in Workers} = Range(jobs))
    /\ [][\A w \in Workers :
            (threads > total /\ pc[w] = "next" /\ queue = <<>> /\ pc'[w] # "next")
                => /\ pc'[w] = "lock_merge"
                   /\ taken'[w] = taken[w]
                   /\ completed' = completed]_vars
    /\ (threads > total) => <>(mainpc = "returned" /\ completed = total)

\* C25: a worker aborts in the creation of a directory only when the
\* directory is still missing, never because another worker created it
\* between the test and the creation: a worker that finds it present goes
\* on to its copy, and every worker at its copy step has the parent
\* directory of its destination present.
C25_CreateRaceBenign ==
    /\ [](\A w \in Workers : pc[w] = "copy" => parent(next[w]) \in dirs)
    /\ [][\A w \in Workers :
            /\ (pc[w] # "panicked" /\ pc'[w] = "panicked")
                  => pc[w] = "mkdir" /\ parent(next[w]) \notin dirs
            /\ (pc[w] = "mkdir" /\ parent(next[w]) \in dirs /\ pc'[w] # "mkdir")
                  => pc'[w] = "copy" /\ outcome'[next[w][1]] # "mkdir_failed"]_vars

C25_Witness ==
    /\ pc[1] = "copy"
    /\ pc[2] = "copy"
    /\ next[1] # next[2]
    /\ parent(next[1]) = parent(next[2])
    /\ outcome[next[1][1]] = "dir_present"
    /\ outcome[next[2][1]] = "pending"

\* The jobs whose copy succeeded.
Copied == {n \in Nodes : outcome[n] = "copied"}

\* C26: with at least one worker, when main() computes queue_len -
\* errors.len() the errors it holds (those of walk() followed by those of
\* backup()) are at most as many as the queued jobs, the subtraction does
\* not abort main(), and the difference is the number of copied jobs.
C26_BackedUpFigure ==
    threads >= 1 =>
        /\ (app = "panicked" => mainpc # "returned")
        /\ app \in {"summary", "log", "done"} =>
              /\ Len(main_errors) <= queue_len
              /\ queue_len - Len(main_errors) = Cardinality(Copied)

====
